---- MODULE Spec2Model ----
(***************************************************************************)
(* Model of the chord pipeline: process_user_chords.main (orchestrator)    *)
(* and scrape_user_chords.scrape_user_chords (link harvester).             *)
(*                                                                         *)
(* Text is modelled at character level: a Python str is a sequence of      *)
(* one-character strings, so that substring tests, URL splitting, joining  *)
(* and sorting are computed as the code computes them.                     *)
(***************************************************************************)
EXTENDS Integers, Sequences, FiniteSets, TLC

(***************************************************************************)
(* Bounds of the model                                                     *)
(***************************************************************************)
\* anchors on the profile page when the harvester script runs on its own
MaxAnchors == 3
\* anchors on the profile page in an orchestrator run
MaxMainAnchors == 2
\* pieces an href is built from, for the exhaustive canonicalisation runs
MaxPieces == 3
\* largest exit code the normalizer passes to sys.exit
MaxExitCode == 2
\* largest absolute value given to the -clicks option
MaxClicks == 2

(***************************************************************************)
(* Characters and strings                                                  *)
(***************************************************************************)
Letters ==
  <<"a","b","c","d","e","f","g","h","i","j","k","l","m",
    "n","o","p","q","r","s","t","u","v","w","x","y","z">>

LetterSet == {Letters[i] : i \in 1..Len(Letters)}

\* urllib.parse.scheme_chars, restricted to the characters the model uses
scheme_chars == LetterSet \cup {"1", "9", "+", "-", "."}

\* ord(c) for the characters the model uses
CodePoint(c) ==
  CASE c = "\n" -> 10
    [] c = "#" -> 35
    [] c = "+" -> 43
    [] c = "-" -> 45
    [] c = "." -> 46
    [] c = "/" -> 47
    [] c = "1" -> 49
    [] c = "9" -> 57
    [] c = ":" -> 58
    [] c = "?" -> 63
    [] OTHER -> 96 + (CHOOSE i \in 1..Len(Letters) : Letters[i] = c)

\* Python's str < str: lexicographic by code point, a proper prefix first
RECURSIVE StrLess(_, _)
StrLess(a, b) ==
  IF b = <<>> THEN FALSE
  ELSE IF a = <<>> THEN TRUE
  ELSE IF a[1] # b[1] THEN CodePoint(a[1]) < CodePoint(b[1])
  ELSE StrLess(Tail(a), Tail(b))

\* str.find for a set of delimiter characters: the first index >= start
\* holding one of them, 0 when there is none (indices are 1-based here)
Find(s, chars, start) ==
  LET I == {i \in start..Len(s) : s[i] \in chars}
  IN  IF I = {} THEN 0 ELSE CHOOSE i \in I : \A j \in I : i <= j

\* s[i:] with a 1-based i
From(s, i) == SubSeq(s, i, Len(s))

\* s[:i] exclusive of the 1-based i
Upto(s, i) == SubSeq(s, 1, i - 1)

\* str.startswith
StartsWith(s, pre) == Len(s) >= Len(pre) /\ SubSeq(s, 1, Len(pre)) = pre

\* Python's "sub in s"
StrIn(sub, s) ==
  \E i \in 1..(Len(s) - Len(sub) + 1) : SubSeq(s, i, i + Len(sub) - 1) = sub

\* str.split(sep) for a one-character sep
RECURSIVE Split(_, _)
Split(s, sep) ==
  LET i == Find(s, {sep}, 1)
  IN  IF i = 0 THEN <<s>> ELSE <<Upto(s, i)>> \o Split(From(s, i + 1), sep)

\* sep.join(parts) for a one-character sep
RECURSIVE Join(_, _)
Join(parts, sep) ==
  IF parts = <<>> THEN <<>>
  ELSE IF Len(parts) = 1 THEN parts[1]
  ELSE parts[1] \o <<sep>> \o Join(Tail(parts), sep)

\* sorted(set of str)
RECURSIVE sorted(_)
sorted(S) ==
  IF S = {} THEN <<>>
  ELSE LET m == CHOOSE x \in S : \A y \in S \ {x} : StrLess(x, y)
       IN  <<m>> \o sorted(S \ {m})

(***************************************************************************)
(* urllib.parse, as scrape_user_chords uses it                             *)
(***************************************************************************)
Https == <<"h","t","t","p","s">>

\* the schemes of urllib's uses_relative / uses_netloc that the model's
\* characters can spell, and the empty scheme
uses_relative == {<<>>, Https}

uses_netloc == {<<>>, Https}

\* urlsplit, first step: the index of the ':' that ends a scheme (a letter
\* followed by scheme characters), 0 when the url has no scheme
scheme_end(url, i) ==
  IF i > 1 /\ url[1] \in LetterSet /\ \A k \in 1..(i - 1) : url[k] \in scheme_chars
  THEN i ELSE 0

\* _splitnetloc: the index that ends the netloc of a url starting with '//'
\* (the first of '/', '?', '#' after it, or the end), 0 without a netloc
netloc_end(u, d) ==
  IF ~StartsWith(u, <<"/", "/">>) THEN 0
  ELSE IF d = 0 THEN Len(u) + 1 ELSE d

\* urlsplit, last step: the path and the query
split_query(scheme, netloc, u, fragment, q) ==
  [scheme   |-> scheme,
   netloc   |-> netloc,
   path     |-> IF q = 0 THEN u ELSE Upto(u, q),
   query    |-> IF q = 0 THEN <<>> ELSE From(u, q + 1),
   fragment |-> fragment]

\* urlsplit: the fragment starts at the first '#'
split_fragment(scheme, netloc, u, f) ==
  IF f = 0
  THEN split_query(scheme, netloc, u, <<>>, Find(u, {"?"}, 1))
  ELSE split_query(scheme, netloc, Upto(u, f), From(u, f + 1),
                   Find(Upto(u, f), {"?"}, 1))

\* urlsplit: the netloc of a url that starts with '//'
split_netloc(scheme, u, e) ==
  IF e = 0
  THEN split_fragment(scheme, <<>>, u, Find(u, {"#"}, 1))
  ELSE split_fragment(scheme, SubSeq(u, 3, e - 1), From(u, e),
                      Find(From(u, e), {"#"}, 1))

\* urlsplit: after the scheme
split_scheme(url, scheme, i) ==
  IF i = 0
  THEN split_netloc(scheme, url,
                    netloc_end(url, Find(url, {"/", "?", "#"}, 3)))
  ELSE split_netloc(Upto(url, i), From(url, i + 1),
                    netloc_end(From(url, i + 1),
                               Find(From(url, i + 1), {"/", "?", "#"}, 3)))

\* urlparse(url, scheme): scheme, netloc, path, query, fragment.  The model's
\* strings hold no ';', so urlparse's params component is always empty.
urlparse(url, scheme) ==
  split_scheme(url, scheme, scheme_end(url, Find(url, {":"}, 1)))

\* urlunparse: '//' netloc path when there is a netloc, or the scheme takes
\* one and the path does not start with '//'
unparse_netloc(scheme, netloc, path) ==
  IF netloc # <<>>
     \/ (scheme # <<>> /\ scheme \in uses_netloc
         /\ ~StartsWith(path, <<"/", "/">>))
  THEN <<"/", "/">> \o netloc
       \o (IF path # <<>> /\ path[1] # "/" THEN <<"/">> ELSE <<>>) \o path
  ELSE path

\* urlunparse: scheme ':' url ['?' query] ['#' fragment]
unparse_rest(scheme, url, query, fragment) ==
  (IF scheme # <<>> THEN scheme \o <<":">> ELSE <<>>) \o url
    \o (IF query # <<>> THEN <<"?">> \o query ELSE <<>>)
    \o (IF fragment # <<>> THEN <<"#">> \o fragment ELSE <<>>)

\* urlunparse((scheme, netloc, path, '', query, fragment))
urlunparse(scheme, netloc, path, query, fragment) ==
  unparse_rest(scheme, unparse_netloc(scheme, netloc, path), query, fragment)

\* the dot-segment loop of urljoin
RECURSIVE ResolveSegments(_, _)
ResolveSegments(segments, resolved) ==
  IF segments = <<>> THEN resolved
  ELSE IF segments[1] = <<".", ".">>
  THEN ResolveSegments(Tail(segments),
                       SubSeq(resolved, 1, Len(resolved) - 1))
  ELSE IF segments[1] = <<".">>
  THEN ResolveSegments(Tail(segments), resolved)
  ELSE ResolveSegments(Tail(segments), Append(resolved, segments[1]))

\* urljoin: base_parts = bpath.split('/'), without a non-empty last part
base_parts(parts) ==
  IF parts[Len(parts)] # <<>> THEN SubSeq(parts, 1, Len(parts) - 1) ELSE parts

\* urljoin: segments[1:-1] = filter(None, segments[1:-1])
filter_middle(segs) ==
  IF Len(segs) <= 2 THEN segs
  ELSE <<segs[1]>>
       \o SelectSeq(SubSeq(segs, 2, Len(segs) - 1), LAMBDA x : x # <<>>)
       \o <<segs[Len(segs)]>>

\* urljoin: the segments of the joined path
join_segments(bpath, path) ==
  IF path[1] = "/" THEN Split(path, "/")
  ELSE filter_middle(base_parts(Split(bpath, "/")) \o Split(path, "/"))

\* urljoin: a last segment '.' or '..' leaves a trailing slash
resolve(segments) ==
  IF segments[Len(segments)] \in {<<".">>, <<".", ".">>}
  THEN Append(ResolveSegments(segments, <<>>), <<>>)
  ELSE ResolveSegments(segments, <<>>)

\* urljoin: '/'.join(resolved_path) or '/'
or_slash(path) == IF path = <<>> THEN <<"/">> ELSE path

\* urljoin, for a url without a netloc of its own
join_relative(b, u) ==
  IF u.path = <<>>
  THEN urlunparse(u.scheme, b.netloc, b.path,
                  IF u.query = <<>> THEN b.query ELSE u.query, u.fragment)
  ELSE urlunparse(u.scheme, b.netloc,
                  or_slash(Join(resolve(join_segments(b.path, u.path)), "/")),
                  u.query, u.fragment)

\* urljoin, with both urls parsed (every scheme the model can spell is in
\* uses_netloc)
join_parsed(url, b, u) ==
  IF u.scheme # b.scheme \/ u.scheme \notin uses_relative THEN url
  ELSE IF u.scheme \in uses_netloc /\ u.netloc # <<>>
  THEN urlunparse(u.scheme, u.netloc, u.path, u.query, u.fragment)
  ELSE join_relative(b, u)

\* urljoin, with the base parsed
join_base(url, b) == join_parsed(url, b, urlparse(url, b.scheme))

\* urljoin(base, url)
urljoin(base, url) ==
  IF base = <<>> THEN url
  ELSE IF url = <<>> THEN base
  ELSE join_base(url, urlparse(base, <<>>))

(***************************************************************************)
(* scrape_user_chords: the pure part (lines 61-79)                         *)
(***************************************************************************)
base_url ==
  <<"h","t","t","p","s",":","/","/","z","h","-","h","k",".",
    "g","u","i","t","a","r","i","a","n","s",".","c","o","m">>

\* the marker '/chord/' of line 68
ChordMarker == <<"/","c","h","o","r","d","/">>

\* line 68: if '/chord/' in href
is_chord_link(href) == StrIn(ChordMarker, href)

\* a bug: the fragment is kept
rebuild_keep_fragment(parsed) ==
  parsed.scheme \o <<":", "/", "/">> \o parsed.netloc \o parsed.path
    \o (IF parsed.query # <<>> THEN <<"?">> \o parsed.query ELSE <<>>)
    \o (IF parsed.fragment # <<>> THEN <<"#">> \o parsed.fragment ELSE <<>>)

\* lines 73-75: scheme://netloc path, then ?query unless it is empty
rebuild(parsed) ==
  parsed.scheme \o <<":", "/", "/">> \o parsed.netloc \o parsed.path
    \o (IF parsed.query # <<>> THEN <<"?">> \o parsed.query ELSE <<>>)

\* lines 70-75: urljoin, urlparse, rebuild without the fragment
clean_url(href) == rebuild(urlparse(urljoin(base_url, href), <<>>))

\* lines 62-76: the set built by the loop over all_links
chord_links(all_links) ==
  {clean_url(all_links[i]) :
     i \in {j \in DOMAIN all_links : is_chord_link(all_links[j])}}

\* a bug: the links in page order, repeats kept
unsorted_links(all_links) ==
  LET kept == SelectSeq(all_links, is_chord_link)
  IN  [i \in DOMAIN kept |-> clean_url(kept[i])]

\* line 79
sorted_links(all_links) == sorted(chord_links(all_links))

\* line 88: '\n'.join(sorted_links), the text written to the manifest
manifest_text(links) == Join(links, "\n")

(***************************************************************************)
(* Inputs: hrefs, pages, the file system before the run                    *)
(***************************************************************************)
OtherSeg == <<"/","o","t","h","e","r","/">>

Pieces == {ChordMarker, OtherSeg, <<"1">>, <<"?">>, <<"#">>, base_url}

\* every href made of at most n pieces
RECURSIVE Hrefs(_)
Hrefs(n) ==
  IF n = 0 THEN {<<>>}
  ELSE Hrefs(n - 1) \cup {h \o p : h \in Hrefs(n - 1), p \in Pieces}

\* /chord/1, /chord/1?1, /chord/1?1#1, <base>/chord/1, /other/1,
\* /other/1?/chord/
PageHrefs ==
  {ChordMarker \o <<"1">>,
   ChordMarker \o <<"1", "?", "1">>,
   ChordMarker \o <<"1", "?", "1", "#", "1">>,
   base_url \o ChordMarker \o <<"1">>,
   OtherSeg \o <<"1">>,
   OtherSeg \o <<"1", "?">> \o ChordMarker}

\* the anchor lists (href attributes in document order) of at most n anchors
Pages(H, n) == UNION {[1..k -> H] : k \in 0..n}

\* prefixes of a page: what the DOM may hold when navigation was cut short
Prefixes(page) == {SubSeq(page, 1, k) : k \in 0..Len(page)}

Dirs == {"script_dir", "elsewhere"}

\* process_user_chords line 39: script_dir / f"{user_id}.txt"
txt_file == "script_dir"

\* scrape_user_chords line 87: Path(f"{user_id}.txt"), relative to the
\* process working directory
output_file(dir) == dir

NoFile == [exists |-> FALSE, text |-> <<>>]

File(text) == [exists |-> TRUE, text |-> text]

\* a manifest left by an earlier run: one link, <base>/chord/9
OldManifest == File(manifest_text(<<base_url \o ChordMarker \o <<"9">>>>))

\* an entry of pdfs/<user_id>/ whose name ends in .pdf: a regular file, or
\* a directory
PdfFile(name) == [name |-> name, is_dir |-> FALSE]

PdfSubdir(name) == [name |-> name, is_dir |-> TRUE]

\* the name of a PDF left in pdfs/<user_id>/ by an earlier run
OldPdf == <<"o", "l", "d">>

NoExit == -1

\* the status the operating system sees for sys.exit(code), an int code
ExitStatus(code) == code % 256

\* the decimal digits
Digits == <<"0","1","2","3","4","5","6","7","8","9">>

\* int(ch) for one decimal digit
DigitValue(ch) == CHOOSE d \in 0..9 : Digits[d + 1] = ch

\* int(text) for a run of decimal digits
RECURSIVE int_digits(_)
int_digits(text) ==
  IF text = <<>> THEN 0
  ELSE int_digits(SubSeq(text, 1, Len(text) - 1)) * 10
         + DigitValue(text[Len(text)])

\* line 28, type=int: int(text) for an optionally signed decimal literal
int(text) ==
  IF text[1] = "-" THEN 0 - int_digits(Tail(text))
  ELSE IF text[1] = "+" THEN int_digits(Tail(text))
  ELSE int_digits(text)

\* the text a user types for the integer n, one digit
ClickText(n) ==
  IF n < 0 THEN <<"-", Digits[1 - n]>> ELSE <<Digits[n + 1]>>

\* what follows -clicks on the command line: nothing when the option is
\* absent, else one argument
ClickArgs ==
  {<<>>} \cup {<<ClickText(n)>> : n \in (0 - MaxClicks)..MaxClicks}

\* lines 26-33: args.clicks, the option's value converted by int, or the
\* default
args_clicks(option) ==
  IF option = <<>> THEN 0 ELSE int(option[1])

VARIABLES
  script,       \* which script was started
  argv,         \* the arguments after -clicks: <<>> or <<text>>
  pc,           \* position in the code
  exit_status,  \* NoExit, or the status the process ended with
  calls,        \* the stages invoked so far, in order
  reported,     \* the stages whose failure has been printed
  cwd,          \* the process working directory
  fs,           \* the manifest <user_id>.txt in each directory
  pdf_dir,      \* pdfs/<user_id>: "absent", "file" or "dir"
  pdf_files,    \* the entries of pdfs/<user_id>/ named *.pdf
  merged_pdf,   \* pdfs/<user_id>_merged.pdf: "absent", "old" or "new"
  profile,      \* the anchors the site serves for the profile page
  dom,          \* the anchors in the browser page right now
  content,      \* the anchors in the markup page.content() returned
  browser,      \* "none", "open" or "closed"
  playwright,   \* "none", "started" or "stopped"
  soft,         \* the soft failures so far: "goto", "wait"
  harvest,      \* "pending", "running", "returned" or "raised"
  links,        \* sorted_links of this run
  norm,         \* how fix_unicode_in_file ended
  render_result, \* "none", "returned" or "raised"
  rendered,     \* the links rendered to a PDF in this run
  merge_input,  \* the list handed to merge_pdfs_from_list
  merge_result, \* "none", "success", "failed" or "raised"
  ui_click_count \* <<>>, or <<n>> once n was handed to the renderer

vars == <<script, argv, pc, exit_status, calls, reported, cwd, fs, pdf_dir,
          pdf_files, merged_pdf, profile, dom, content, browser, playwright,
          soft, harvest, links, norm, render_result, rendered, merge_input,
          merge_result, ui_click_count>>

proc_vars == <<script, argv>>

browser_vars == <<profile, dom, content, browser, playwright, soft, links>>

disk_vars == <<cwd, fs, pdf_dir, pdf_files, merged_pdf>>

stage_vars == <<norm, render_result, rendered, merge_input, merge_result,
                ui_click_count>>

InitCommon ==
  /\ exit_status = NoExit
  /\ calls = <<>>
  /\ reported = {}
  /\ fs \in {[d \in Dirs |-> IF d = txt_file THEN f ELSE NoFile] :
              f \in {NoFile, OldManifest}}
  /\ dom = <<>>
  /\ content = <<>>
  /\ browser = "none"
  /\ playwright = "none"
  /\ soft = {}
  /\ harvest = "pending"
  /\ links = <<>>
  /\ norm = [kind |-> "none", code |-> 0]
  /\ render_result = "none"
  /\ rendered = {}
  /\ merge_input = <<>>
  /\ merge_result = "none"
  /\ ui_click_count = <<>>

\* python process_user_chords.py <user_id>
Init ==
  /\ InitCommon
  /\ script = "process_user_chords"
  /\ argv = <<>>
  /\ pc = "main"
  /\ cwd \in Dirs
  /\ profile \in Pages(PageHrefs, MaxMainAnchors)
  /\ pdf_dir \in {"absent", "file", "dir"}
  /\ pdf_files \in (IF pdf_dir = "dir"
                    THEN {{}, {PdfFile(OldPdf)}, {PdfSubdir(OldPdf)}}
                    ELSE {{}})
  /\ merged_pdf \in {"absent", "old"}

\* python process_user_chords.py <user_id> [-clicks <text>], started in the
\* directory of the scripts on a clean installation
InitClicks ==
  /\ InitCommon
  /\ script = "process_user_chords"
  /\ argv \in ClickArgs
  /\ pc = "main"
  /\ cwd = "script_dir"
  /\ fs[txt_file] = NoFile
  /\ profile \in Pages(PageHrefs, MaxMainAnchors)
  /\ pdf_dir = "absent"
  /\ pdf_files = {}
  /\ merged_pdf = "absent"

\* python scrape_user_chords.py <user_id>, started in the directory of the
\* scripts
InitScrape ==
  /\ InitCommon
  /\ script = "scrape_user_chords"
  /\ argv = <<>>
  /\ pc = "scrape_main"
  /\ cwd = "script_dir"
  /\ profile \in Pages(PageHrefs, MaxAnchors)
                 \cup {<<h>> : h \in Hrefs(MaxPieces)}
  /\ pdf_dir = "absent"
  /\ pdf_files = {}
  /\ merged_pdf = "absent"

\* the process ends with sys.exit(code) or an uncaught exception
Exit(code) ==
  /\ pc' = "exited"
  /\ exit_status' = ExitStatus(code)

\* print("... failed") followed by sys.exit(code)
Fail(stage, code) ==
  /\ reported' = reported \cup {stage}
  /\ Exit(code)

(***************************************************************************)
(* scrape_user_chords.py                                                   *)
(***************************************************************************)
\* lines 92-102: the script run on its own calls scrape_user_chords
scrape_main ==
  /\ pc = "scrape_main"
  /\ pc' = "h_launch"
  /\ calls' = Append(calls, "harvest")
  /\ harvest' = "running"
  /\ UNCHANGED <<proc_vars, exit_status, reported, browser_vars, disk_vars,
                 stage_vars>>

\* lines 23-25: sync_playwright() is entered and chromium launched; the
\* launch may raise
launch_browser ==
  /\ pc = "h_launch"
  /\ playwright' = "started"
  /\ \/ browser' = "open" /\ pc' = "h_page"
     \/ browser' = browser /\ pc' = "h_raise"
  /\ UNCHANGED <<proc_vars, exit_status, calls, reported, disk_vars, profile,
                 dom, content, soft, harvest, links, stage_vars>>

\* lines 26-34: new_page, set_viewport_size, set_extra_http_headers; any of
\* them may raise
new_page ==
  /\ pc = "h_page"
  /\ pc' \in {"h_goto", "h_raise"}
  /\ UNCHANGED <<proc_vars, exit_status, calls, reported, disk_vars,
                 browser_vars, harvest, stage_vars>>

\* a bug: the navigation error is not caught
goto_error_raises == "h_raise"

\* lines 39-41: where the harvester continues after page.goto raised
after_goto_error == "h_wait"

\* lines 37-41: page.goto; an exception is printed as a warning and the
\* page keeps whatever it had loaded
goto ==
  /\ pc = "h_goto"
  /\ \/ dom' = profile /\ soft' = soft /\ pc' = "h_wait"
     \/ /\ dom' \in Prefixes(profile)
        /\ soft' = soft \cup {"goto"}
        /\ pc' = after_goto_error
  /\ UNCHANGED <<proc_vars, exit_status, calls, reported, disk_vars, profile,
                 content, browser, playwright, harvest, links, stage_vars>>

\* lines 49-50: where the harvester continues after the wait raised
after_wait_error == "h_content"

\* lines 45-50: wait_for_selector('body') and the settle delay; an
\* exception is printed as a warning
wait_for_selector ==
  /\ pc = "h_wait"
  /\ \/ soft' = soft /\ pc' = "h_content"
     \/ soft' = soft \cup {"wait"} /\ pc' = after_wait_error
  /\ UNCHANGED <<proc_vars, exit_status, calls, reported, disk_vars, profile,
                 dom, content, browser, playwright, harvest, links,
                 stage_vars>>

\* line 53: content = page.content(), which may raise
page_content ==
  /\ pc = "h_content"
  /\ \/ content' = dom /\ pc' = "h_close"
     \/ content' = content /\ pc' = "h_raise"
  /\ UNCHANGED <<proc_vars, exit_status, calls, reported, disk_vars, profile,
                 dom, browser, playwright, soft, harvest, links, stage_vars>>

\* lines 56-57: browser.close(), then the with block ends
close_browser ==
  /\ pc = "h_close"
  /\ browser' = "closed"
  /\ playwright' = "stopped"
  /\ pc' = "h_extract"
  /\ UNCHANGED <<proc_vars, exit_status, calls, reported, disk_vars, profile,
                 dom, content, soft, harvest, links, stage_vars>>

\* a bug: the manifest is written even when no link was found
write_manifest_always(files, dir, found) ==
  [files EXCEPT ![output_file(dir)] = File(manifest_text(found))]

\* lines 81-88: the manifest after the harvester's last step
write_manifest(files, dir, found) ==
  IF found = <<>> THEN files
  ELSE [files EXCEPT ![output_file(dir)] = File(manifest_text(found))]

\* lines 59-89: parse, filter, canonicalise, sort, write the manifest unless
\* no link was found, and return; the caller goes on (main line 50, or the
\* end of the script)
extract_links ==
  /\ pc = "h_extract"
  /\ links' = sorted_links(content)
  /\ fs' = write_manifest(fs, cwd, links')
  /\ harvest' = "returned"
  /\ IF script = "process_user_chords"
     THEN pc' = "check_txt" /\ exit_status' = exit_status
     ELSE Exit(0)
  /\ UNCHANGED <<proc_vars, calls, reported, cwd, pdf_dir, pdf_files,
                 merged_pdf, profile, dom, content, browser, playwright,
                 soft, stage_vars>>

\* an exception leaves the with block (playwright stops) and reaches the
\* caller: main lines 51-53 print the failure and sys.exit(1); the script
\* run on its own dies with a traceback, status 1
harvest_raise ==
  /\ pc = "h_raise"
  /\ playwright' = "stopped"
  /\ harvest' = "raised"
  /\ IF script = "process_user_chords"
     THEN Fail("harvest", 1)
     ELSE Exit(1) /\ reported' = reported
  /\ UNCHANGED <<proc_vars, calls, disk_vars, profile, dom, content, browser,
                 soft, links, stage_vars>>

(***************************************************************************)
(* process_user_chords.py: main                                            *)
(***************************************************************************)
\* lines 33-49: parse the arguments, fix the paths, call the harvester
main_start ==
  /\ pc = "main"
  /\ pc' = "h_launch"
  /\ calls' = Append(calls, "harvest")
  /\ harvest' = "running"
  /\ UNCHANGED <<proc_vars, exit_status, reported, browser_vars, disk_vars,
                 stage_vars>>

\* a bug: the manifest is not looked for
manifest_exists_unchecked(files) == TRUE

\* line 56: txt_file.exists()
manifest_exists(files) == files[txt_file].exists

\* lines 56-58: no manifest, no run
check_txt ==
  /\ pc = "check_txt"
  /\ IF manifest_exists(fs)
     THEN pc' = "normalize" /\ UNCHANGED <<exit_status, reported>>
     ELSE Fail("manifest", 1)
  /\ UNCHANGED <<proc_vars, calls, browser_vars, disk_vars, harvest,
                 stage_vars>>

\* how fix_unicode_in_file(txt_file) may end: it returns, it calls
\* sys.exit(code), or it raises another exception
NormalizeOutcomes ==
  {[kind |-> "return", code |-> 0], [kind |-> "raise", code |-> 0]}
    \cup {[kind |-> "exit", code |-> c] : c \in 0..MaxExitCode}

\* line 70: if e.code != 0
normalize_failed(code) == code # 0

\* a bug: the generic status 1 instead of the normalizer's own code
normalize_exit_generic(code) == 1

\* line 72: sys.exit(e.code)
normalize_exit_code(code) == code

\* lines 65-75: the normalizer rewrites the manifest in place (text that is
\* plain ASCII, as every harvested link here is, is left as it is)
normalize ==
  /\ pc = "normalize"
  /\ calls' = Append(calls, "normalize")
  /\ \E o \in NormalizeOutcomes :
       /\ norm' = o
       /\ CASE o.kind = "return" ->
                 pc' = "mkdir" /\ UNCHANGED <<exit_status, reported>>
            [] o.kind = "exit" ->
                 IF normalize_failed(o.code)
                 THEN Fail("normalize", normalize_exit_code(o.code))
                 ELSE pc' = "mkdir" /\ UNCHANGED <<exit_status, reported>>
            [] o.kind = "raise" -> Fail("normalize", 1)
  /\ UNCHANGED <<proc_vars, browser_vars, disk_vars, harvest, render_result,
                 rendered, merge_input, merge_result, ui_click_count>>

\* line 78: pdf_dir.mkdir(parents=True, exist_ok=True) raises
\* FileExistsError when the path is a regular file; nothing catches it, so
\* the process dies with a traceback, status 1, and no stage is named
mkdir ==
  /\ pc = "mkdir"
  /\ IF pdf_dir = "file"
     THEN Exit(1) /\ pdf_dir' = pdf_dir
     ELSE pdf_dir' = "dir" /\ pc' = "render" /\ exit_status' = exit_status
  /\ UNCHANGED <<proc_vars, calls, reported, cwd, fs, pdf_files, merged_pdf,
                 browser_vars, harvest, stage_vars>>

\* the renderer reads the manifest line by line and ignores blank lines
manifest_lines(text) ==
  LET ls == Split(text, "\n")
  IN  {ls[i] : i \in {j \in DOMAIN ls : ls[j] # <<>>}}

\* lines 84-89: process_urls_from_file(str(txt_file), pdf_dir, clicks): it
\* raises, or it renders some of the links (a link that fails is skipped),
\* one PDF per link, named after the link
render ==
  /\ pc = "render"
  /\ calls' = Append(calls, "render")
  /\ ui_click_count' = <<args_clicks(argv)>>
  /\ \/ /\ render_result' = "raised"
        /\ Fail("render", 1)
        /\ UNCHANGED <<pdf_files, rendered>>
     \/ \E ok \in SUBSET manifest_lines(fs[txt_file].text) :
          /\ render_result' = "returned"
          /\ rendered' = ok
          /\ pdf_files' = pdf_files \cup {PdfFile(l) : l \in ok}
          /\ pc' = "check_pdfs"
          /\ UNCHANGED <<exit_status, reported>>
  /\ UNCHANGED <<proc_vars, cwd, fs, pdf_dir, merged_pdf, browser_vars,
                 harvest, norm, merge_input, merge_result>>

\* lines 92-93: not list(pdf_dir.glob('*.pdf')); the pattern matches every
\* entry of that name, directories too
no_pdf_files(entries) == entries = {}

\* lines 92-95
check_pdfs ==
  /\ pc = "check_pdfs"
  /\ IF no_pdf_files(pdf_files)
     THEN Fail("pdfs", 1)
     ELSE pc' = "merge" /\ UNCHANGED <<exit_status, reported>>
  /\ UNCHANGED <<proc_vars, calls, browser_vars, disk_vars, harvest,
                 stage_vars>>

\* find_pdfs_in_directory: the PDF files directly inside the directory, by
\* file name
find_pdfs_in_directory(entries) ==
  sorted({e.name : e \in {x \in entries : ~x.is_dir}})

\* a bug: the list of PDFs is not checked
no_pdf_paths_unchecked(paths) == FALSE

\* line 104: if not pdf_file_paths
no_pdf_paths(paths) == paths = <<>>

\* a bug: the success flag of the merge is ignored
merge_failed_ignored(success) == FALSE

\* line 110: if not success
merge_failed(success) == ~success

\* lines 102-117: find the PDFs; merge them unless there is none; merge
\* returns success (the output is written), returns success=False, or
\* raises.  The sys.exit(1) of lines 106 and 112 is a SystemExit, which
\* "except Exception" lets through.
merge ==
  /\ pc = "merge"
  /\ IF no_pdf_paths(find_pdfs_in_directory(pdf_files))
     THEN /\ Fail("merge", 1)
          /\ UNCHANGED <<calls, merged_pdf, merge_input, merge_result>>
     ELSE /\ calls' = Append(calls, "merge")
          /\ merge_input' = find_pdfs_in_directory(pdf_files)
          /\ \/ \E success \in BOOLEAN :
                  /\ merge_result' = IF success THEN "success" ELSE "failed"
                  /\ merged_pdf' = IF success THEN "new" ELSE merged_pdf
                  /\ IF merge_failed(success)
                     THEN Fail("merge", 1)
                     ELSE /\ pc' = "finish"
                          /\ UNCHANGED <<exit_status, reported>>
             \/ /\ merge_result' = "raised"
                /\ merged_pdf' = merged_pdf
                /\ Fail("merge", 1)
  /\ UNCHANGED <<proc_vars, cwd, fs, pdf_dir, pdf_files, browser_vars, harvest,
                 norm, render_result, rendered, ui_click_count>>

\* lines 119-125: the summary is printed and main returns: status 0
finish ==
  /\ pc = "finish"
  /\ Exit(0)
  /\ UNCHANGED <<proc_vars, calls, reported, browser_vars, disk_vars, harvest,
                 stage_vars>>

Harvester ==
  \/ launch_browser
  \/ new_page
  \/ goto
  \/ wait_for_selector
  \/ page_content
  \/ close_browser
  \/ extract_links
  \/ harvest_raise

Next ==
  \/ main_start
  \/ Harvester
  \/ check_txt
  \/ normalize
  \/ mkdir
  \/ render
  \/ check_pdfs
  \/ merge
  \/ finish

NextScrape == scrape_main \/ Harvester

\* a run of process_user_chords.py
Spec == Init /\ [][Next]_vars

\* a run of process_user_chords.py with the -clicks option
SpecClicks == InitClicks /\ [][Next]_vars

\* a run of scrape_user_chords.py on its own
SpecScrape == InitScrape /\ [][NextScrape]_vars

(***************************************************************************)
(* The claims                                                              *)
(***************************************************************************)
Exited == pc = "exited"

Invoked(stage) == \E i \in DOMAIN calls : calls[i] = stage

\* the harvester returned and had found no chord link on the page
ZeroLinks == harvest = "returned" /\ links = <<>>

\* the normalizer ended the process with a non-zero status, or raised
NormalizeFailed ==
  \/ norm.kind = "raise"
  \/ norm.kind = "exit" /\ ExitStatus(norm.code) # 0

\* a stage failed: it raised, exited non-zero or returned success=False
StageFailed ==
  \/ harvest = "raised"
  \/ NormalizeFailed
  \/ render_result = "raised"
  \/ merge_result \in {"failed", "raised"}

\* C1 (as claimed): once the harvester has returned with zero matching
\* links, none of normalize, render, merge is ever invoked, the run does not
\* get past the manifest check, and if it has ended its status is non-zero.
C1_ZeroLinksFailTheRun ==
  ZeroLinks =>
    /\ ~Invoked("normalize") /\ ~Invoked("render") /\ ~Invoked("merge")
    /\ pc \in {"check_txt", "exited"}
    /\ Exited => exit_status # 0

\* C2: the process ends with status 0 only after the harvester returned, the
\* manifest existed, the normalizer did not fail, the renderer returned, a
\* PDF was found and merge returned success; and once a stage has failed
\* the process has ended with a non-zero status.
C2_ExitZeroOnlyOnFullSuccess ==
  /\ (Exited /\ exit_status = 0) =>
       /\ harvest = "returned"
       /\ fs[txt_file].exists
       /\ Invoked("normalize") /\ ~NormalizeFailed
       /\ render_result = "returned"
       /\ pdf_files # {} /\ merge_input # <<>>
       /\ merge_result = "success"
       /\ reported = {}
  /\ StageFailed => Exited /\ exit_status # 0
  /\ (Exited /\ reported # {}) => exit_status # 0

C2_Witness == Exited /\ exit_status = 0 /\ merge_result = "success"

\* C3: when the normalizer ends the process with a non-zero status c, the
\* orchestrator has ended with that same status c and has invoked neither
\* render nor merge; when the normalizer raises another exception the
\* orchestrator has ended with status 1, render and merge not invoked.
C3_NormalizerStatusPropagates ==
  /\ (norm.kind = "exit" /\ ExitStatus(norm.code) # 0) =>
       /\ Exited /\ exit_status = ExitStatus(norm.code)
       /\ ~Invoked("render") /\ ~Invoked("merge")
  /\ norm.kind = "raise" =>
       /\ Exited /\ exit_status = 1
       /\ ~Invoked("render") /\ ~Invoked("merge")

C3_Witness == Exited /\ norm.kind = "exit" /\ norm.code = 2 /\ exit_status = 2

\* C4 (as claimed): once the renderer has returned without rendering any
\* PDF in this run, merge is never invoked, the run does not get past the
\* PDF check, and if it has ended its status is non-zero, whatever
\* pdfs/<user_id>/ held before the run.
C4_NothingRenderedFailsTheRun ==
  (render_result = "returned" /\ rendered = {}) =>
    /\ ~Invoked("merge")
    /\ pc \in {"check_pdfs", "exited"}
    /\ Exited => exit_status # 0

\* the stage order
StageOrder == <<"harvest", "normalize", "render", "merge">>

\* C5: the stages invoked so far are an initial part of harvest, normalize,
\* render, merge (so: in that order, each at most once); normalize and
\* render are invoked only after the harvester returned and with the
\* manifest present, render only after the normalizer did not fail, merge
\* only after the renderer returned and with a PDF in the directory; a
\* stage that failed is the last stage invoked.
C5_StagesInOrder ==
  /\ Len(calls) <= Len(StageOrder)
  /\ calls = SubSeq(StageOrder, 1, Len(calls))
  /\ Invoked("normalize") => harvest = "returned" /\ fs[txt_file].exists
  /\ Invoked("render") =>
       /\ norm.kind \in {"return", "exit"} /\ ~NormalizeFailed
       /\ fs[txt_file].exists
  /\ Invoked("merge") => render_result = "returned" /\ pdf_files # {}
  /\ harvest = "raised" => Len(calls) = 1
  /\ NormalizeFailed => Len(calls) = 2
  /\ render_result = "raised" => Len(calls) = 3

C5_Witness == calls = StageOrder /\ merge_result = "success"

\* C10: merge_pdfs_from_list is never handed an empty list; and once the
\* renderer has returned and no PDF file is in the directory, the run ends
\* with status 1 at the PDF check or at the check of the list found, merge
\* is not called and the merged output is not written.
C10_MergeNeverGetsEmptyList ==
  /\ Invoked("merge") => merge_input # <<>>
  /\ merge_result # "none" => merge_input # <<>>
  /\ (render_result = "returned" /\ find_pdfs_in_directory(pdf_files) = <<>>) =>
       /\ ~Invoked("merge") /\ merge_result = "none"
       /\ merged_pdf # "new"
       /\ pc \in {"check_pdfs", "merge", "exited"}
       /\ Exited => exit_status = 1

\* the list found is empty although the directory has an entry named *.pdf
C10_Witness ==
  /\ Exited /\ exit_status = 1
  /\ render_result = "returned"
  /\ pdf_files # {}
  /\ find_pdfs_in_directory(pdf_files) = <<>>
  /\ ~Invoked("merge")

\* the manifest file the harvester writes, and its lines
written_file == fs[output_file(cwd)]

written_lines == Split(written_file.text, "\n")

\* the anchors of the parsed page whose href passes the test of line 68
MatchingAnchors == {k \in DOMAIN content : is_chord_link(content[k])}

\* C6: after the harvester returned from a page with a matching anchor, the
\* manifest exists, its lines are in strictly ascending order by code point
\* (so none repeats) and they are exactly the canonical URLs of the matching
\* anchors.
C6_ManifestSortedAndDeduplicated ==
  (harvest = "returned" /\ MatchingAnchors # {}) =>
    /\ written_file.exists
    /\ \A i, j \in DOMAIN written_lines :
         i < j => StrLess(written_lines[i], written_lines[j])
    /\ {written_lines[i] : i \in DOMAIN written_lines}
         = {clean_url(content[k]) : k \in MatchingAnchors}

\* a page [B, A, B]: a repeat, and not in order
C6_Witness ==
  /\ harvest = "returned"
  /\ Len(content) = 3
  /\ MatchingAnchors = {1, 2, 3}
  /\ content[1] = content[3]
  /\ StrLess(clean_url(content[2]), clean_url(content[1]))
  /\ Len(written_lines) = 2

\* the path of the URL an href points to contains /chord/
PathHasMarker(href) ==
  StrIn(ChordMarker, urlparse(urljoin(base_url, href), <<>>).path)

\* the lines the harvester wrote in this run (none when it found no link)
LinesWritten ==
  IF links = <<>> THEN {}
  ELSE {written_lines[i] : i \in DOMAIN written_lines}

\* C7 (as claimed): after the harvester returned, the lines it wrote are
\* exactly the canonical URLs of the anchors whose URL path contains
\* /chord/; an anchor with /chord/ only in its query or fragment adds none.
C7_OnlyPathMarkerKept ==
  harvest = "returned" =>
    LinesWritten
      = {clean_url(content[k]) :
           k \in {j \in DOMAIN content : PathHasMarker(content[j])}}

\* the href up to its first '#'
WithoutFragment(href) ==
  IF Find(href, {"#"}, 1) = 0 THEN href ELSE Upto(href, Find(href, {"#"}, 1))

\* the text between the first '?' and the end of a url without fragment
QueryOfStripped(u) ==
  IF Find(u, {"?"}, 1) = 0 THEN <<>> ELSE From(u, Find(u, {"?"}, 1) + 1)

\* the query string of an href
QueryOf(href) == QueryOfStripped(WithoutFragment(href))

\* C8: after the harvester returned, for every anchor of the page it
\* parsed: canonicalising its canonical URL gives that URL again;
\* canonicalising the href without its fragment gives the same URL; the URL
\* has the href's query string and holds no '#'.  And no character of a
\* manifest the harvester wrote is '#'.
C8_CanonicalisationIdempotent ==
  harvest = "returned" =>
    /\ \A k \in DOMAIN content :
         /\ clean_url(clean_url(content[k])) = clean_url(content[k])
         /\ clean_url(WithoutFragment(content[k])) = clean_url(content[k])
         /\ QueryOf(clean_url(content[k])) = QueryOf(content[k])
         /\ Find(clean_url(content[k]), {"#"}, 1) = 0
    /\ MatchingAnchors # {} => Find(written_file.text, {"#"}, 1) = 0

\* a chord link with a query and a fragment went into the manifest
C8_Witness ==
  /\ harvest = "returned"
  /\ written_file.exists
  /\ \E k \in MatchingAnchors :
       /\ QueryOf(content[k]) # <<>>
       /\ WithoutFragment(content[k]) # content[k]
       /\ clean_url(content[k]) \in LinesWritten

\* C9: a failed page.goto and a failed wait_for_selector never end the
\* harvester: the step after page.goto is the wait and the step after the
\* wait is page.content(), whether they failed or not; and when the
\* harvester has returned after a soft failure, the content it parsed is
\* what the page held, the browser is closed, and a page with a matching
\* anchor has its manifest written.
C9_SoftFailuresContinue ==
  /\ [][/\ pc = "h_goto" => (pc' = "h_wait" /\ harvest' = "running")
        /\ pc = "h_wait" => (pc' = "h_content" /\ harvest' = "running")]_vars
  /\ []((soft # {} /\ harvest = "returned") =>
          /\ content = dom
          /\ browser = "closed"
          /\ links = sorted_links(dom)
          /\ MatchingAnchors # {} =>
               written_file = File(manifest_text(sorted_links(dom))))

\* both soft failures happened and the manifest was written
C9_Witness ==
  /\ soft = {"goto", "wait"}
  /\ harvest = "returned"
  /\ MatchingAnchors # {}
  /\ written_file.exists

\* C11 (as claimed): whenever the orchestrator has ended because of a
\* failure (a non-zero status), it has printed a report naming the stage
\* that failed; no failing path ends without one.
C11_EveryFailureReported ==
  (Exited /\ exit_status # 0) => reported # {}

\* C12 (as claimed): whatever the working directory, once the harvester has
\* returned with at least one link, the file it wrote is the file the
\* orchestrator checks and hands to the normalizer and the renderer: the
\* two paths are the same, that file holds the manifest of this run, and
\* the manifest check does not fail.
C12_ManifestPathsAgree ==
  (harvest = "returned" /\ links # <<>>) =>
    /\ output_file(cwd) = txt_file
    /\ fs[txt_file] = File(manifest_text(links))
    /\ "manifest" \notin reported

\* C13: the step in which the harvester finds no matching link changes
\* nothing on disk (no manifest is created, and one that was there keeps
\* its content) and the harvester returns rather than raises; so after a
\* harvest with zero links the manifest is the one from before the run, or
\* still absent.
C13_ZeroLinksLeaveFilesAlone ==
  /\ [][(pc = "h_extract" /\ sorted_links(content) = <<>>) =>
          /\ disk_vars' = disk_vars
          /\ harvest' = "returned"
          /\ pc' # "h_raise"]_vars
  /\ [](ZeroLinks => written_file \in {NoFile, OldManifest})

\* a page with anchors, none of them a chord link, and an older manifest
C13_Witness ==
  /\ ZeroLinks
  /\ content # <<>>
  /\ written_file = OldManifest

\* C14 (as claimed): when the harvester has ended, by returning or by an
\* exception reaching its caller, the browser session it opened has been
\* closed; and the links are parsed and the manifest written only with the
\* session closed.
C14_SessionClosedOnEveryExit ==
  /\ harvest \in {"returned", "raised"} => browser # "open"
  /\ (pc = "h_extract" \/ harvest = "returned") => browser = "closed"

\* C15 (as claimed): the ui_click_count handed to the renderer is the value
\* of the -clicks option, 0 when the option is absent, and is never
\* negative; with a negative value on the command line the renderer is not
\* invoked.
C15_ClickCountNonNegative ==
  /\ ui_click_count # <<>> =>
       /\ ui_click_count[1] = (IF argv = <<>> THEN 0 ELSE int(argv[1]))
       /\ ui_click_count[1] >= 0
  /\ (argv # <<>> /\ argv[1][1] = "-" /\ int(argv[1]) < 0) =>
       ~Invoked("render")
====
